---- MODULE Spec2Model ----
(***************************************************************************)
(* Run-worker health monitoring of dagster-cloud:                          *)
(*   dagster_cloud/execution/monitoring/__init__.py                        *)
(*     get_cloud_run_worker_statuses, run_worker_monitoring_thread,        *)
(*     run_worker_monitoring_thread_iteration,                             *)
(*     start_run_worker_monitoring_thread, CloudRunWorkerStatus            *)
(*   dagster_cloud/execution/cloud_run_launcher/k8s.py                     *)
(*     CloudK8sRunLauncher.check_run_worker_health                         *)
(*                                                                         *)
(* Two specifications share the module.  Spec is the monitor thread with   *)
(* its clients (a thread that reads the status table or mutates the watch  *)
(* set under the lock, and the owner that sets the shutdown event).        *)
(* HealthSpec applies the pure functions check_run_worker_health and       *)
(* from_check_run_health_result to every input of a bounded set.           *)
(* FairSpec is Spec with the fairness the thread scheduling gives.         *)
(*                                                                         *)
(* Optional[x] is a sequence of length 0 (None) or 1 (the value).          *)
(***************************************************************************)
EXTENDS Integers, Sequences, FiniteSets, TLC

VARIABLES
    \* shared objects handed to start_run_worker_monitoring_thread
    deployments_to_check,        \* Set[str]: the watch set
    statuses_dict,               \* Dict[str, List[CloudRunWorkerStatus]]: the status table
    run_worker_monitoring_lock,  \* holder of the threading.Lock: "free", "monitor", "client"
    shutdown_event,              \* threading.Event: is it set
    \* the monitor thread
    pc,                          \* position of the monitor thread
    deployments_to_check_copy,   \* local of run_worker_monitoring_thread_iteration
    remaining,                   \* the tenants the for loop of line 105 has not reached
    deployment_name,             \* Optional: loop variable of line 105
    scoped_instance,             \* the set of scoped instances that are open (line 106)
    supports,                    \* value read from launcher.supports_check_run_worker_health
    runs,                        \* runs the comprehension of lines 112-117 has not reached
    worker_statuses,             \* the list the comprehension of lines 112-117 is building
    statuses,                    \* local dict `statuses`, as its items in insertion order
    written,                     \* number of items the loop of line 157 has written
    failure,                     \* the exception that is propagating or was caught: its origin
    \* history
    committed,                   \* the table as the monitor last left it when releasing the lock
    started,                     \* poll iterations entered
    finished,                    \* poll iterations returned
    woken,                       \* returns of shutdown_event.wait
    caught,                      \* poll iterations that ended in the handler of line 159
    \* one call of check_run_worker_health and its mapping (HealthSpec)
    hc_pc,
    hc_run,
    hc_job,
    hc_result,
    hc_status

shared == <<deployments_to_check, statuses_dict, run_worker_monitoring_lock, shutdown_event>>
locals == <<deployments_to_check_copy, remaining, deployment_name, scoped_instance,
            supports, runs, worker_statuses, statuses, written, failure>>
history == <<committed, started, finished, woken, caught>>
hc == <<hc_pc, hc_run, hc_job, hc_result, hc_status>>
vars == <<shared, pc, locals, history, hc>>

----------------------------------------------------------------------------
(* Bounds *)

\* poll iterations a behaviour runs (the loop of line 133 is unbounded)
MaxIterations == 2
\* in-progress runs a tenant's listing returns
MaxRuns == 2
\* pods a job's status counts as failed or succeeded
MaxPods == 1

\* deployment names in use
Tenants == {"t1", "t2"}
\* run ids in use: run i is the i-th run a listing returns
RunIds == 1..MaxRuns
\* the listings scoped_instance.get_runs returns
RunListings == {[i \in 1..n |-> i] : n \in 0..MaxRuns}

None == <<>>
Some(x) == <<x>>

----------------------------------------------------------------------------
(* dagster._core.launcher.WorkerStatus and the K8s health check *)

WorkerStatus == {"RUNNING", "SUCCESS", "FAILED", "UNKNOWN"}

\* exceptions read_namespaced_job raises
ReadErrors == {"ApiException404", "ApiException500"}

\* The world as one call of check_run_worker_health finds it:
\*   context: does get_container_context_for_run return (line 15)
\*   read:    None when read_namespaced_job returns, else the exception it raises
\*   failed, succeeded: job.status.failed / job.status.succeeded, Optional[int]
PodCounts == {None} \cup {Some(n) : n \in 0..MaxPods}
Jobs == [context : BOOLEAN, read : {None} \cup {Some(e) : e \in ReadErrors},
         failed : PodCounts, succeeded : PodCounts]

\* Python truth value of an Optional[int]
Truthy(count) == count # None /\ count[1] # 0

\* str(serializable_error_info_from_exc_info(sys.exc_info())): the rendered error
ErrorInfoString(exc) ==
    CASE exc = "ApiException404" -> "kubernetes.client.rest.ApiException: (404) Reason: Not Found"
      [] exc = "ApiException500" -> "kubernetes.client.rest.ApiException: (500) Reason: Internal Server Error"
      [] OTHER -> "Exception"

\* CheckRunHealthResult(status, msg=None)
CheckRunHealthResult(status, msg) == [raised |-> FALSE, status |-> status, msg |-> msg]
\* the call raising instead of returning
Raised == [raised |-> TRUE, status |-> "UNKNOWN", msg |-> None]

\* variant: no try/except around read_namespaced_job
check_run_worker_health_uncaught(run_id, job) ==
    IF ~job.context \/ job.read # None THEN Raised
    ELSE IF Truthy(job.failed) THEN CheckRunHealthResult("FAILED", Some("K8s job failed"))
    ELSE IF Truthy(job.succeeded) THEN CheckRunHealthResult("SUCCESS", None)
    ELSE CheckRunHealthResult("RUNNING", None)

\* variant: a message on the SUCCESS result
check_run_worker_health_success_message(run_id, job) ==
    IF ~job.context THEN Raised
    ELSE IF job.read # None
         THEN CheckRunHealthResult("UNKNOWN", Some(ErrorInfoString(job.read[1])))
    ELSE IF Truthy(job.failed) THEN CheckRunHealthResult("FAILED", Some("K8s job failed"))
    ELSE IF Truthy(job.succeeded)
         THEN CheckRunHealthResult("SUCCESS", Some("K8s job succeeded"))
    ELSE CheckRunHealthResult("RUNNING", None)

\* variant: job.status.succeeded is tested before job.status.failed
check_run_worker_health_succeeded_first(run_id, job) ==
    IF ~job.context THEN Raised
    ELSE IF job.read # None
         THEN CheckRunHealthResult("UNKNOWN", Some(ErrorInfoString(job.read[1])))
    ELSE IF Truthy(job.succeeded) THEN CheckRunHealthResult("SUCCESS", None)
    ELSE IF Truthy(job.failed) THEN CheckRunHealthResult("FAILED", Some("K8s job failed"))
    ELSE CheckRunHealthResult("RUNNING", None)

\* CloudK8sRunLauncher.check_run_worker_health(run) for the job state `job`
check_run_worker_health(run_id, job) ==
    IF ~job.context THEN Raised
    ELSE IF job.read # None
         THEN CheckRunHealthResult("UNKNOWN", Some(ErrorInfoString(job.read[1])))
    ELSE IF Truthy(job.failed) THEN CheckRunHealthResult("FAILED", Some("K8s job failed"))
    ELSE IF Truthy(job.succeeded) THEN CheckRunHealthResult("SUCCESS", None)
    ELSE CheckRunHealthResult("RUNNING", None)

\* CloudRunWorkerStatus(run_id, status_type, message=None)
CloudRunWorkerStatus(run_id, status_type, message) ==
    [run_id |-> run_id, status_type |-> status_type, message |-> message]

\* CloudRunWorkerStatus.from_check_run_health_result(run_id, result)
from_check_run_health_result(run_id, result) ==
    CloudRunWorkerStatus(run_id, result.status, result.msg)

\* the job states the monitor's health checks meet: the job is read and has neither
\* failed nor succeeded, or the run's container context cannot be built
MonitorJobs == {j \in Jobs : j.read = None /\ j.failed = None /\ j.succeeded = None}

----------------------------------------------------------------------------
(* dict helpers *)

EmptyDict == [t \in {} |-> <<>>]

\* d[k] = v
DictSet(d, k, v) == [x \in (DOMAIN d) \cup {k} |-> IF x = k THEN v ELSE d[x]]

\* keys of the local dict `statuses`
StatusKeys == {statuses[i].name : i \in 1..Len(statuses)}

\* the local dict `statuses` as a mapping
StatusesAsDict ==
    [t \in StatusKeys |->
        statuses[CHOOSE i \in 1..Len(statuses) : statuses[i].name = t].statuses]

----------------------------------------------------------------------------
(* Initial state: the objects as the agent constructs them, the thread not started *)

NoLocals ==
    /\ deployments_to_check_copy = {}
    /\ remaining = {}
    /\ deployment_name = None
    /\ scoped_instance = {}
    /\ supports = FALSE
    /\ runs = <<>>
    /\ worker_statuses = <<>>
    /\ statuses = <<>>
    /\ written = 0
    /\ failure = "none"

ResetLocals ==
    /\ deployments_to_check_copy' = {}
    /\ remaining' = {}
    /\ deployment_name' = None
    /\ scoped_instance' = {}
    /\ supports' = FALSE
    /\ runs' = <<>>
    /\ worker_statuses' = <<>>
    /\ statuses' = <<>>
    /\ written' = 0
    /\ failure' = "none"

HealthIdle ==
    /\ hc_pc = "idle"
    /\ hc_run = None
    /\ hc_job = None
    /\ hc_result = None
    /\ hc_status = None

Init ==
    /\ deployments_to_check = {}
    /\ statuses_dict = EmptyDict
    /\ run_worker_monitoring_lock = "free"
    /\ shutdown_event = FALSE
    /\ pc = "idle"
    /\ NoLocals
    /\ committed = EmptyDict
    /\ started = 0
    /\ finished = 0
    /\ woken = 0
    /\ caught = 0
    /\ HealthIdle

----------------------------------------------------------------------------
(* start_run_worker_monitoring_thread and run_worker_monitoring_thread *)

\* lines 164-183, then lines 129-132 in the new thread
StartThread ==
    /\ pc = "idle"
    /\ pc' = "while"
    /\ UNCHANGED <<shared, locals, history, hc>>

\* variant: the next iteration is started on a timer, while one is still polling
LoopCheckOnTimer ==
    /\ pc \in {"while", "for"}
    /\ IF shutdown_event
       THEN /\ pc' = "done"
            /\ UNCHANGED started
       ELSE /\ started < MaxIterations
            /\ pc' = "lock_copy"
            /\ started' = started + 1
    /\ UNCHANGED <<shared, locals, committed, finished, woken, caught, hc>>

\* variant: the event is tested after the iteration, the first one runs untested
LoopCheckAfterIteration ==
    /\ pc = "while"
    /\ IF shutdown_event /\ started > 0
       THEN /\ pc' = "done"
            /\ UNCHANGED started
       ELSE /\ started < MaxIterations
            /\ pc' = "lock_copy"
            /\ started' = started + 1
    /\ UNCHANGED <<shared, locals, committed, finished, woken, caught, hc>>

\* line 133: while not shutdown_event.is_set()
LoopCheck ==
    /\ pc = "while"
    /\ IF shutdown_event
       THEN /\ pc' = "done"
            /\ UNCHANGED started
       ELSE /\ started < MaxIterations
            /\ pc' = "lock_copy"
            /\ started' = started + 1
    /\ UNCHANGED <<shared, locals, committed, finished, woken, caught, hc>>

\* line 137: shutdown_event.wait(interval) returns because the interval elapsed
WaitTimeout ==
    /\ pc = "wait"
    /\ pc' = "while"
    /\ woken' = woken + 1
    /\ UNCHANGED <<shared, locals, committed, started, finished, caught, hc>>

\* variant: time.sleep(interval) in place of shutdown_event.wait(interval)
SleepIgnoresEvent ==
    /\ pc = "wait"
    /\ FALSE
    /\ UNCHANGED vars

\* line 137: shutdown_event.wait(interval) returns because the event is set
WaitEvent ==
    /\ pc = "wait"
    /\ shutdown_event
    /\ pc' = "while"
    /\ woken' = woken + 1
    /\ UNCHANGED <<shared, locals, committed, started, finished, caught, hc>>

----------------------------------------------------------------------------
(* run_worker_monitoring_thread_iteration: the copy *)

\* line 150: with run_worker_monitoring_lock
AcquireForCopy ==
    /\ pc = "lock_copy"
    /\ run_worker_monitoring_lock = "free"
    /\ run_worker_monitoring_lock' = "monitor"
    /\ pc' = "copy"
    /\ UNCHANGED <<deployments_to_check, statuses_dict, shutdown_event, locals, history, hc>>

\* variant: the call of line 153 inside the with block of line 150
CopyAndKeepLock ==
    /\ pc = "copy"
    /\ deployments_to_check_copy' = deployments_to_check
    /\ pc' = "call"
    /\ UNCHANGED <<shared, remaining, deployment_name, scoped_instance, supports, runs,
                   worker_statuses, statuses, written, failure, history, hc>>

\* line 151, and the release at the end of the with block
CopyAndRelease ==
    /\ pc = "copy"
    /\ deployments_to_check_copy' = deployments_to_check
    /\ run_worker_monitoring_lock' = "free"
    /\ pc' = "call"
    /\ UNCHANGED <<deployments_to_check, statuses_dict, shutdown_event, remaining,
                   deployment_name, scoped_instance, supports, runs, worker_statuses,
                   statuses, written, failure, history, hc>>

\* variant: the watch set itself is passed, not the copy
LiveWatchSetArgument == deployments_to_check

\* the argument line 153 passes as deployment_names
DeploymentNamesArgument == deployments_to_check_copy

----------------------------------------------------------------------------
(* get_cloud_run_worker_statuses *)

\* lines 153, 103, 105: the call, statuses = {}, the iterator over deployment_names
EnterGetStatuses ==
    /\ pc = "call"
    /\ statuses' = <<>>
    /\ remaining' = DeploymentNamesArgument
    /\ pc' = "for"
    /\ UNCHANGED <<shared, deployments_to_check_copy, deployment_name, scoped_instance,
                   supports, runs, worker_statuses, written, failure, history, hc>>

\* line 105: the next deployment_name (a set iterates in no fixed order)
NextDeployment ==
    /\ pc = "for"
    /\ remaining # {}
    /\ \E t \in remaining :
        /\ deployment_name' = Some(t)
        /\ remaining' = remaining \ {t}
    /\ pc' = "open"
    /\ UNCHANGED <<shared, deployments_to_check_copy, scoped_instance, supports, runs,
                   worker_statuses, statuses, written, failure, history, hc>>

\* an exception leaves the frame: the position and the origin of the exception
Raise(origin) ==
    /\ failure' = origin
    /\ pc' = "raise"

\* lines 106-108: DagsterInstance.from_ref(...) returns the scoped instance, or raises
OpenScopedInstance ==
    /\ pc = "open"
    /\ \/ /\ scoped_instance' = scoped_instance \cup {deployment_name[1]}
          /\ pc' = "launcher"
          /\ UNCHANGED failure
       \/ /\ Raise("open")
          /\ UNCHANGED scoped_instance
    /\ UNCHANGED <<shared, deployments_to_check_copy, remaining, deployment_name, supports,
                   runs, worker_statuses, statuses, written, history, hc>>

\* lines 109-110: launcher.supports_check_run_worker_health is read
ReadSupports ==
    /\ pc = "launcher"
    /\ supports' \in BOOLEAN
    /\ pc' = "invariant"
    /\ UNCHANGED <<shared, deployments_to_check_copy, remaining, deployment_name,
                   scoped_instance, runs, worker_statuses, statuses, written, failure,
                   history, hc>>

\* variant: an unsupported launcher yields an empty list and the loop goes on
CheckInvariantShortCircuit ==
    /\ pc = "invariant"
    /\ IF supports
       THEN /\ pc' = "get_runs"
            /\ UNCHANGED <<statuses, scoped_instance, deployment_name>>
       ELSE /\ statuses' = Append(statuses, [name |-> deployment_name[1], statuses |-> <<>>])
            /\ scoped_instance' = scoped_instance \ {deployment_name[1]}
            /\ deployment_name' = None
            /\ pc' = "for"
    /\ supports' = FALSE
    /\ UNCHANGED <<shared, deployments_to_check_copy, remaining, runs, worker_statuses,
                   written, failure, history, hc>>

\* line 110: check.invariant(...) raises when the value is false
CheckInvariant ==
    /\ pc = "invariant"
    /\ IF supports
       THEN /\ pc' = "get_runs"
            /\ UNCHANGED failure
       ELSE Raise("support")
    /\ supports' = FALSE
    /\ UNCHANGED <<shared, deployments_to_check_copy, remaining, deployment_name,
                   scoped_instance, runs, worker_statuses, statuses, written, history, hc>>

\* line 111: scoped_instance.get_runs(in-progress filter) returns a listing, or raises
GetRuns ==
    /\ pc = "get_runs"
    /\ \/ /\ runs' \in RunListings
          /\ worker_statuses' = <<>>
          /\ pc' = "health"
          /\ UNCHANGED failure
       \/ /\ Raise("list")
          /\ UNCHANGED <<runs, worker_statuses>>
    /\ UNCHANGED <<shared, deployments_to_check_copy, remaining, deployment_name,
                   scoped_instance, supports, statuses, written, history, hc>>

\* variant: the statuses are collected newest first
CheckRunWorkerHealthReversed ==
    /\ pc = "health"
    /\ runs # <<>>
    /\ \E job \in MonitorJobs :
        LET result == check_run_worker_health(Head(runs), job) IN
        IF result.raised
        THEN /\ Raise("health")
             /\ UNCHANGED <<runs, worker_statuses>>
        ELSE /\ worker_statuses' =
                    <<from_check_run_health_result(Head(runs), result)>> \o worker_statuses
             /\ runs' = Tail(runs)
             /\ UNCHANGED <<pc, failure>>
    /\ UNCHANGED <<shared, deployments_to_check_copy, remaining, deployment_name,
                   scoped_instance, supports, statuses, written, history, hc>>

\* lines 113-116: one element of the comprehension, the health check of the next run
CheckRunWorkerHealth ==
    /\ pc = "health"
    /\ runs # <<>>
    /\ \E job \in MonitorJobs :
        LET result == check_run_worker_health(Head(runs), job) IN
        IF result.raised
        THEN /\ Raise("health")
             /\ UNCHANGED <<runs, worker_statuses>>
        ELSE /\ worker_statuses' =
                    Append(worker_statuses, from_check_run_health_result(Head(runs), result))
             /\ runs' = Tail(runs)
             /\ UNCHANGED <<pc, failure>>
    /\ UNCHANGED <<shared, deployments_to_check_copy, remaining, deployment_name,
                   scoped_instance, supports, statuses, written, history, hc>>

\* variant: the scoped instance is opened without a with block and never closed
StoreStatusesLeaveOpen ==
    /\ pc = "health"
    /\ runs = <<>>
    /\ statuses' = Append(statuses, [name |-> deployment_name[1], statuses |-> worker_statuses])
    /\ worker_statuses' = <<>>
    /\ deployment_name' = None
    /\ pc' = "for"
    /\ UNCHANGED <<shared, deployments_to_check_copy, remaining, scoped_instance, supports,
                   runs, written, failure, history, hc>>

\* variant: each tenant's statuses are written to the table as soon as they are known
StoreStatusesWriteThrough ==
    /\ pc = "health"
    /\ runs = <<>>
    /\ statuses' = Append(statuses, [name |-> deployment_name[1], statuses |-> worker_statuses])
    /\ statuses_dict' = DictSet(statuses_dict, deployment_name[1], worker_statuses)
    /\ worker_statuses' = <<>>
    /\ scoped_instance' = scoped_instance \ {deployment_name[1]}
    /\ deployment_name' = None
    /\ pc' = "for"
    /\ UNCHANGED <<deployments_to_check, run_worker_monitoring_lock, shutdown_event,
                   deployments_to_check_copy, remaining, supports, runs, written, failure,
                   history, hc>>

\* line 112: statuses[deployment_name] = [...], then the with block closes the instance
StoreStatuses ==
    /\ pc = "health"
    /\ runs = <<>>
    /\ statuses' = Append(statuses, [name |-> deployment_name[1], statuses |-> worker_statuses])
    /\ worker_statuses' = <<>>
    /\ scoped_instance' = scoped_instance \ {deployment_name[1]}
    /\ deployment_name' = None
    /\ pc' = "for"
    /\ UNCHANGED <<shared, deployments_to_check_copy, remaining, supports, runs, written,
                   failure, history, hc>>

\* variant: the result of the poll is dropped when the event was set meanwhile
ReturnStatusesUnlessShutdown ==
    /\ pc = "for"
    /\ remaining = {}
    /\ IF shutdown_event
       THEN /\ pc' = "wait"
            /\ finished' = finished + 1
            /\ ResetLocals
            /\ UNCHANGED <<shared, committed, started, woken, caught, hc>>
       ELSE /\ pc' = "lock_commit"
            /\ UNCHANGED <<shared, locals, history, hc>>

\* line 119: return statuses (the for loop is exhausted), line 154
ReturnStatuses ==
    /\ pc = "for"
    /\ remaining = {}
    /\ pc' = "lock_commit"
    /\ UNCHANGED <<shared, locals, history, hc>>

\* variant: a try/except per tenant, the loop goes on with the next tenant
UnwindSkipTenant ==
    /\ pc = "raise"
    /\ scoped_instance' = {}
    /\ deployment_name' = None
    /\ runs' = <<>>
    /\ worker_statuses' = <<>>
    /\ failure' = "none"
    /\ pc' = "for"
    /\ UNCHANGED <<shared, deployments_to_check_copy, remaining, supports, statuses,
                   written, history, hc>>

\* variant: a try/except per run, the comprehension goes on with the next run
UnwindSkipRun ==
    /\ pc = "raise"
    /\ IF failure = "health"
       THEN /\ runs' = Tail(runs)
            /\ failure' = "none"
            /\ pc' = "health"
            /\ UNCHANGED scoped_instance
       ELSE /\ scoped_instance' = {}
            /\ pc' = "except"
            /\ UNCHANGED <<runs, failure>>
    /\ UNCHANGED <<shared, deployments_to_check_copy, remaining, deployment_name, supports,
                   worker_statuses, statuses, written, history, hc>>

\* variant: the commit in a finally clause, the statuses gathered so far are written
UnwindCommitPartial ==
    /\ pc = "raise"
    /\ scoped_instance' = {}
    /\ pc' = "lock_commit"
    /\ UNCHANGED <<shared, deployments_to_check_copy, remaining, deployment_name, supports,
                   runs, worker_statuses, statuses, written, failure, history, hc>>

\* The exception propagates: the with block of line 106 closes the scoped instance,
\* nothing in get_cloud_run_worker_statuses catches it, line 159 does.
Unwind ==
    /\ pc = "raise"
    /\ scoped_instance' = {}
    /\ pc' = "except"
    /\ UNCHANGED <<shared, deployments_to_check_copy, remaining, deployment_name, supports,
                   runs, worker_statuses, statuses, written, failure, history, hc>>

----------------------------------------------------------------------------
(* run_worker_monitoring_thread_iteration: the commit and the handler *)

\* variant: the commit without the lock
CommitWithoutLock ==
    /\ pc = "lock_commit"
    /\ pc' = "clear"
    /\ UNCHANGED <<shared, locals, history, hc>>

\* line 155: with run_worker_monitoring_lock
AcquireForCommit ==
    /\ pc = "lock_commit"
    /\ run_worker_monitoring_lock = "free"
    /\ run_worker_monitoring_lock' = "monitor"
    /\ pc' = "clear"
    /\ UNCHANGED <<deployments_to_check, statuses_dict, shutdown_event, locals, history, hc>>

\* variant: the commit without statuses_dict.clear()
CommitNoClear ==
    /\ pc = "clear"
    /\ written' = 0
    /\ pc' = "write"
    /\ UNCHANGED <<shared, deployments_to_check_copy, remaining, deployment_name,
                   scoped_instance, supports, runs, worker_statuses, statuses, failure,
                   history, hc>>

\* line 156: statuses_dict.clear()
CommitClear ==
    /\ pc = "clear"
    /\ statuses_dict' = EmptyDict
    /\ written' = 0
    /\ pc' = "write"
    /\ UNCHANGED <<deployments_to_check, run_worker_monitoring_lock, shutdown_event,
                   deployments_to_check_copy, remaining, deployment_name, scoped_instance,
                   supports, runs, worker_statuses, statuses, failure, history, hc>>

\* lines 157-158: one item of statuses.items()
CommitWrite ==
    /\ pc = "write"
    /\ written < Len(statuses)
    /\ statuses_dict' = DictSet(statuses_dict, statuses[written + 1].name,
                                statuses[written + 1].statuses)
    /\ written' = written + 1
    /\ UNCHANGED <<deployments_to_check, run_worker_monitoring_lock, shutdown_event, pc,
                   deployments_to_check_copy, remaining, deployment_name, scoped_instance,
                   supports, runs, worker_statuses, statuses, failure, history, hc>>

\* the with block of line 155 ends: the lock is released and the iteration returns
CommitRelease ==
    /\ pc = "write"
    /\ written = Len(statuses)
    /\ run_worker_monitoring_lock' = "free"
    /\ committed' = statuses_dict
    /\ finished' = finished + 1
    /\ pc' = "wait"
    /\ ResetLocals
    /\ UNCHANGED <<deployments_to_check, statuses_dict, shutdown_event, started, woken,
                   caught, hc>>

\* variant: the handler logs the error and the thread function returns
LogErrorAndExit ==
    /\ pc = "except"
    /\ finished' = finished + 1
    /\ caught' = caught + 1
    /\ pc' = "done"
    /\ ResetLocals
    /\ UNCHANGED <<shared, committed, started, woken, hc>>

\* lines 159-161: the error is logged and the iteration returns
LogError ==
    /\ pc = "except"
    /\ finished' = finished + 1
    /\ caught' = caught + 1
    /\ pc' = "wait"
    /\ ResetLocals
    /\ UNCHANGED <<shared, committed, started, woken, hc>>

----------------------------------------------------------------------------
(* The other threads of the agent: they hold the same objects *)

\* the owner of the thread sets the event it got from start_run_worker_monitoring_thread
SetShutdown ==
    /\ pc # "idle"
    /\ ~shutdown_event
    /\ shutdown_event' = TRUE
    /\ UNCHANGED <<deployments_to_check, statuses_dict, run_worker_monitoring_lock, pc,
                   locals, history, hc>>

\* a client takes the lock to read the table or to change the watch set
ClientAcquire ==
    /\ run_worker_monitoring_lock = "free"
    /\ run_worker_monitoring_lock' = "client"
    /\ UNCHANGED <<deployments_to_check, statuses_dict, shutdown_event, pc, locals,
                   history, hc>>

ClientAddDeployment ==
    /\ run_worker_monitoring_lock = "client"
    /\ \E t \in Tenants \ deployments_to_check :
        deployments_to_check' = deployments_to_check \cup {t}
    /\ UNCHANGED <<statuses_dict, run_worker_monitoring_lock, shutdown_event, pc, locals,
                   history, hc>>

ClientRemoveDeployment ==
    /\ run_worker_monitoring_lock = "client"
    /\ \E t \in deployments_to_check :
        deployments_to_check' = deployments_to_check \ {t}
    /\ UNCHANGED <<statuses_dict, run_worker_monitoring_lock, shutdown_event, pc, locals,
                   history, hc>>

ClientRelease ==
    /\ run_worker_monitoring_lock = "client"
    /\ run_worker_monitoring_lock' = "free"
    /\ UNCHANGED <<deployments_to_check, statuses_dict, shutdown_event, pc, locals,
                   history, hc>>

----------------------------------------------------------------------------
(* Specifications *)

Monitor ==
    \/ StartThread
    \/ LoopCheck
    \/ AcquireForCopy
    \/ CopyAndRelease
    \/ EnterGetStatuses
    \/ NextDeployment
    \/ OpenScopedInstance
    \/ ReadSupports
    \/ CheckInvariant
    \/ GetRuns
    \/ CheckRunWorkerHealth
    \/ StoreStatuses
    \/ ReturnStatuses
    \/ Unwind
    \/ AcquireForCommit
    \/ CommitClear
    \/ CommitWrite
    \/ CommitRelease
    \/ LogError
    \/ WaitEvent

Next ==
    \/ Monitor
    \/ WaitTimeout
    \/ SetShutdown
    \/ ClientAcquire
    \/ ClientAddDeployment
    \/ ClientRemoveDeployment
    \/ ClientRelease

Spec == Init /\ [][Next]_vars

\* The thread runs while it can take a step.  shutdown_event.wait is woken by the event
\* (WaitEvent), so no fairness is asked of the timeout.  A client holds the lock for a
\* read or an update of the watch set and releases it, and a thread waiting for the
\* lock gets it once it is free often enough.
FairSpec ==
    /\ Spec
    /\ WF_vars(Monitor)
    /\ SF_vars(AcquireForCopy)
    /\ SF_vars(AcquireForCommit)
    /\ WF_vars(ClientRelease)

----------------------------------------------------------------------------
(* The health check and its mapping, applied to every job state *)

\* CloudK8sRunLauncher.check_run_worker_health(run) is called and returns or raises
HealthCall ==
    /\ hc_pc = "idle"
    /\ \E r \in RunIds, job \in Jobs :
        /\ hc_run' = Some(r)
        /\ hc_job' = Some(job)
        /\ hc_result' = Some(check_run_worker_health(r, job))
        /\ hc_pc' = IF check_run_worker_health(r, job).raised THEN "raised" ELSE "returned"
    /\ UNCHANGED <<hc_status, shared, pc, locals, history>>

\* line 113: CloudRunWorkerStatus.from_check_run_health_result(run.run_id, result)
HealthMap ==
    /\ hc_pc = "returned"
    /\ hc_status' = Some(from_check_run_health_result(hc_run[1], hc_result[1]))
    /\ hc_pc' = "mapped"
    /\ UNCHANGED <<hc_run, hc_job, hc_result, shared, pc, locals, history>>

\* the next call
HealthDone ==
    /\ hc_pc \in {"raised", "mapped"}
    /\ hc_pc' = "idle"
    /\ hc_run' = None
    /\ hc_job' = None
    /\ hc_result' = None
    /\ hc_status' = None
    /\ UNCHANGED <<shared, pc, locals, history>>

HealthNext ==
    \/ HealthCall
    \/ HealthMap
    \/ HealthDone

HealthSpec == Init /\ [][HealthNext]_vars

----------------------------------------------------------------------------
(* Properties *)

\* positions inside get_cloud_run_worker_statuses, no exception propagating
PollPcs == {"for", "open", "launcher", "invariant", "get_runs", "health"}
\* positions inside run_worker_monitoring_thread_iteration
IterationPcs == {"lock_copy", "copy", "call", "lock_commit", "clear", "write",
                 "raise", "except"} \cup PollPcs
\* the tenant the loop of line 105 is at, as a set
Current == IF deployment_name = None THEN {} ELSE {deployment_name[1]}
\* the write loop of lines 157-158 is through
CommitWritten == pc = "write" /\ written = Len(statuses)

C3_AtomicVisibility ==
    /\ [](run_worker_monitoring_lock # "monitor" => statuses_dict = committed)
    /\ [](pc \in {"clear", "write"} => run_worker_monitoring_lock = "monitor")
    /\ [][(pc = "write" /\ pc' # pc) => statuses_dict' = StatusesAsDict]_vars

\* C3 witness: a reader holds the lock while the monitor waits to commit statuses that
\* differ from the non-empty table the reader sees.
C3_Witness ==
    /\ run_worker_monitoring_lock = "client"
    /\ pc = "lock_commit"
    /\ statuses_dict # EmptyDict
    /\ statuses # <<>>
    /\ StatusesAsDict # statuses_dict

\* C4: at most one poll iteration is executing; iteration n+1 is executing only when n
\* iterations have returned and n sleeps have returned.
C4_NoOverlap ==
    /\ started - finished \in {0, 1}
    /\ (started - finished = 1) <=> (pc \in IterationPcs)
    /\ pc \in IterationPcs => (finished = started - 1 /\ woken = started - 1)
    /\ pc = "wait" => woken = started - 1
    /\ pc \in {"while", "done"} => woken = started

\* C4 witness: the last iteration the bound allows is polling, after a full earlier one.
C4_Witness ==
    /\ started = MaxIterations
    /\ finished = MaxIterations - 1
    /\ woken = MaxIterations - 1
    /\ pc = "health"

\* C5: once the shutdown event is set the thread reaches its end, given that the calls
\* of the iteration in flight return; from the sleep or the loop test with the event
\* set, the thread starts no iteration and only goes on to the loop test and the end.
\* The sleep is left through the event, no fairness is assumed of the timeout.
C5_CooperativeShutdown ==
    /\ shutdown_event ~> (pc = "done")
    /\ [][(shutdown_event /\ pc \in {"wait", "while"}) =>
            (started' = started /\ pc' \in {"wait", "while", "done"}
             /\ statuses_dict' = statuses_dict)]_vars
    /\ [][(shutdown_event /\ pc = "while" /\ pc' # pc) => pc' = "done"]_vars

\* C5 witness: the event is set while the thread sleeps and iterations are left to run.
C5_Witness ==
    /\ shutdown_event
    /\ pc = "wait"
    /\ started < MaxIterations

\* C6: while an exception of a poll iteration is propagating or has been caught, the
\* monitor does not hold the lock and the table is the table as last committed, which
\* is the table the iteration found; and handling the exception leaves the table as is.
C6_FailedCycleNoOp ==
    /\ [](failure # "none" =>
            /\ pc \in {"raise", "except"}
            /\ run_worker_monitoring_lock # "monitor"
            /\ statuses_dict = committed)
    /\ [](pc \in {"raise", "except"} => failure # "none")
    /\ [](pc \in PollPcs \cup {"lock_copy", "copy", "call", "lock_commit"} =>
            statuses_dict = committed)
    /\ [][(failure # "none" \/ failure' # "none") =>
            (statuses_dict' = statuses_dict /\ committed' = committed)]_vars

\* C6 witness: a health check raised after statuses were gathered, the table is not
\* empty and differs from what was gathered.
C6_Witness ==
    /\ pc = "except"
    /\ failure = "health"
    /\ statuses_dict # EmptyDict
    /\ statuses # <<>>
    /\ StatusesAsDict # statuses_dict

\* C7: the iteration copies the watch set under the lock; the tenants it polls, has
\* polled and will poll are those of the copy, and the statuses it goes on to commit
\* have the copy as key set, whatever happens to the watch set meanwhile; a change of
\* the watch set changes nothing of the iteration in flight.
C7_WatchSetSnapshot ==
    /\ [][(pc = "copy" /\ pc' # pc) =>
            (deployments_to_check_copy' = deployments_to_check
             /\ run_worker_monitoring_lock = "monitor")]_vars
    /\ [](pc \in PollPcs =>
            /\ remaining \cup Current \cup StatusKeys = deployments_to_check_copy
            /\ remaining \cap (Current \cup StatusKeys) = {}
            /\ Current \cap StatusKeys = {})
    /\ [](pc \in {"raise", "except"} =>
            remaining \cup Current \cup StatusKeys = deployments_to_check_copy)
    /\ [](pc \in {"lock_commit", "clear", "write"} =>
            StatusKeys = deployments_to_check_copy)
    /\ [][deployments_to_check' # deployments_to_check =>
            UNCHANGED <<pc, locals, statuses_dict>>]_vars

\* C7 witness: in the second iteration, the statuses about to be committed cover a copy
\* that differs from the keys committed before and from the watch set as it is now.
C7_Witness ==
    /\ started = 2
    /\ pc = "lock_commit"
    /\ deployments_to_check_copy # {}
    /\ deployments_to_check_copy # DOMAIN committed
    /\ deployments_to_check_copy # deployments_to_check
    /\ StatusKeys = deployments_to_check_copy

C9_KeysEqualCopy ==
    CommitWritten =>
        /\ DOMAIN statuses_dict = deployments_to_check_copy
        /\ \A t \in DOMAIN committed \ deployments_to_check_copy : t \notin DOMAIN statuses_dict
        /\ statuses_dict = StatusesAsDict

\* C9 witness: a commit is through whose copy lacks a tenant that the previous table
\* had and that is no longer in the watch set.
C9_Witness ==
    /\ CommitWritten
    /\ \E t \in DOMAIN committed :
        /\ t \notin deployments_to_check
        /\ t \notin deployments_to_check_copy
        /\ t \notin DOMAIN statuses_dict
    /\ statuses_dict # EmptyDict

\* C10: when get_container_context_for_run returned and read_namespaced_job raised,
\* check_run_worker_health returns (it does not raise) the status UNKNOWN with a
\* message that is neither None nor empty, and the CloudRunWorkerStatus made of it has
\* the run's id, the status UNKNOWN and that message.
C10_ReadFailureIsUnknown ==
    (hc_pc # "idle" /\ hc_job[1].context /\ hc_job[1].read # None) =>
        /\ hc_pc \in {"returned", "mapped"}
        /\ ~hc_result[1].raised
        /\ hc_result[1].status = "UNKNOWN"
        /\ hc_result[1].msg \notin {None, Some("")}
        /\ hc_pc = "mapped" =>
            hc_status[1] = [run_id |-> hc_run[1], status_type |-> "UNKNOWN",
                            message |-> hc_result[1].msg]

\* C10 witness: the job of run 2 was not found and the status was mapped.
C10_Witness ==
    /\ hc_pc = "mapped"
    /\ hc_run = Some(2)
    /\ hc_job[1].read = Some("ApiException404")
    /\ hc_status[1].status_type = "UNKNOWN"
    /\ hc_status[1].run_id = 2

\* C11: the loop survives failed cycles.  The handler of line 159 returns to the loop,
\* which sleeps (line 137) and evaluates its condition again (line 133); with the event
\* not set the next step of the loop starts another iteration.  The thread ends only
\* from the loop condition with the event set, never with an exception propagating.
C11_LoopSurvivesFailedCycle ==
    /\ [][(pc = "except" /\ pc' # pc) => (pc' = "wait" /\ caught' = caught + 1)]_vars
    /\ [][caught' # caught => (pc = "except" /\ pc' = "wait")]_vars
    /\ [][(pc = "wait" /\ pc' # pc) => pc' = "while"]_vars
    /\ [][(pc = "while" /\ ~shutdown_event /\ pc' # pc) =>
            (pc' = "lock_copy" /\ started' = started + 1)]_vars
    /\ [][(pc' = "done" /\ pc # "done") => (pc = "while" /\ shutdown_event)]_vars
    /\ [](pc = "done" => (failure = "none" /\ shutdown_event))

\* C11 witness: the first iteration ended in the handler, the event is not set and the
\* second iteration is polling
C11_Witness ==
    /\ caught = 1
    /\ started = 2
    /\ ~shutdown_event
    /\ pc \in PollPcs

\* C12: lock discipline.  Whenever the monitor holds the lock it is copying the watch
\* set (line 151) or committing (lines 156-158); it does not hold it while a scoped
\* instance is open or while a listing or a health check is in progress.
C12_LockDiscipline ==
    /\ run_worker_monitoring_lock = "monitor" =>
            (pc \in {"copy", "clear", "write"} /\ scoped_instance = {})
    /\ (pc \in PollPcs \cup {"call", "raise", "except"}) =>
            run_worker_monitoring_lock \in {"free", "client"}

\* C12 witness: the monitor holds the lock in the middle of the write loop
C12_Witness ==
    /\ run_worker_monitoring_lock = "monitor"
    /\ pc = "write"
    /\ written = 1
    /\ Len(statuses) = 2

\* the run ids of a list of CloudRunWorkerStatus, in order
RunIdsOf(status_list) == [i \in 1..Len(status_list) |-> status_list[i].run_id]
\* the results the health checks of the monitor return
MonitorResults ==
    {check_run_worker_health(r, j) : r \in RunIds, j \in {m \in MonitorJobs : m.context}}

SessionPcs == {"launcher", "invariant", "get_runs", "health", "raise"}

\* C14: scoped-session discipline.  At most one scoped instance is open at any time,
\* and only the one of the tenant being polled, inside the with block of line 106;
\* none is open between two tenants, once the poll has returned or raised into the
\* handler, while the thread sleeps, or after it has shut down.
C14_ScopedSessionDiscipline ==
    /\ Cardinality(scoped_instance) <= 1
    /\ scoped_instance # {} => (pc \in SessionPcs /\ scoped_instance = Current)
    /\ (pc \in SessionPcs \ {"raise"}) => scoped_instance = Current
    /\ pc \in {"for", "lock_commit", "clear", "write", "except", "wait", "while", "done"} =>
            scoped_instance = {}

\* C14 witness: the second tenant's health check raised after the first tenant's
\* session was opened and closed, and the exception has reached the handler
C14_Witness ==
    /\ pc = "except"
    /\ failure = "health"
    /\ Len(statuses) = 1
    /\ scoped_instance = {}

\* C15: writes are confined to the commit.  The table changes only in a step of the
\* clear-and-write loop (lines 156-158), taken by the monitor while it holds the lock;
\* no step of get_cloud_run_worker_statuses changes the table or the watch set; no
\* step of the monitor changes the watch set; starting the thread changes neither.
C15_WritesConfinedToCommit ==
    /\ [][statuses_dict' # statuses_dict =>
            /\ pc \in {"clear", "write"}
            /\ run_worker_monitoring_lock = "monitor"
            /\ run_worker_monitoring_lock' = "monitor"]_vars
    /\ [][(pc \in PollPcs \cup {"call", "raise"} /\ <<pc, locals>>' # <<pc, locals>>) =>
            UNCHANGED <<statuses_dict, deployments_to_check>>]_vars
    /\ [][<<pc, locals, history>>' # <<pc, locals, history>> =>
            UNCHANGED deployments_to_check]_vars
    /\ [][(pc = "idle" /\ pc' # pc) => UNCHANGED <<statuses_dict, deployments_to_check>>]_vars

\* C15 witness: the monitor, holding the lock, has written one of two entries, so the
\* table differs from the one it last released
C15_Witness ==
    /\ pc = "write"
    /\ run_worker_monitoring_lock = "monitor"
    /\ written = 1
    /\ Len(statuses) = 2
    /\ statuses_dict # committed

\* C16: cancellation is checked before each poll.  Every iteration, the first one
\* included, is entered from the loop test of line 133 with the event not set; when
\* the test finds the event set the thread goes to its end without starting an
\* iteration and without touching the table; at its end no iteration is open and the
\* table is as last committed.
C16_CancellationCheckedBeforePoll ==
    /\ [][(pc = "while" /\ shutdown_event /\ <<pc, locals, history>>' # <<pc, locals, history>>) =>
            /\ pc' = "done"
            /\ UNCHANGED <<started, finished, statuses_dict, committed, locals>>]_vars
    /\ [][started' # started =>
            /\ pc = "while"
            /\ ~shutdown_event
            /\ pc' = "lock_copy"
            /\ started' = started + 1]_vars
    /\ [][(pc = "idle" /\ pc' # pc) => (pc' = "while" /\ started' = 0)]_vars
    /\ [](pc = "done" => (shutdown_event /\ started = finished /\ statuses_dict = committed))

\* C16 witness: the event was set before the first loop test, and the thread has ended
\* without an iteration
C16_Witness ==
    /\ pc = "done"
    /\ shutdown_event
    /\ started = 0
    /\ deployments_to_check # {}

\* C17: every CloudRunWorkerStatus made of a result of the K8s health check has a
\* status of the enumeration, and a message other than None only when the status is
\* FAILED or UNKNOWN: a RUNNING or SUCCESS status has the message None.
C17_MessageOnlyWhenFailedOrUnknown ==
    /\ hc_pc \in {"returned", "mapped"} =>
            /\ hc_result[1].status \in WorkerStatus
            /\ hc_result[1].msg # None => hc_result[1].status \in {"FAILED", "UNKNOWN"}
    /\ hc_pc = "mapped" =>
            /\ hc_status[1].status_type \in WorkerStatus
            /\ hc_status[1].message # None => hc_status[1].status_type \in {"FAILED", "UNKNOWN"}
            /\ hc_status[1].status_type \in {"RUNNING", "SUCCESS"} => hc_status[1].message = None

\* C17 witness: a job with a succeeded pod and none failed was mapped to SUCCESS with
\* no message
C17_Witness ==
    /\ hc_pc = "mapped"
    /\ hc_job[1].succeeded = Some(1)
    /\ hc_status[1].status_type = "SUCCESS"
    /\ hc_status[1].message = None

\* job.status.failed / job.status.succeeded as a number of pods, an absent count as 0
PodCount(count) == IF count = None THEN 0 ELSE count[1]

\* C19: status precedence when the job is read.  The call returns, with exactly one of
\* FAILED, SUCCESS and RUNNING: FAILED whenever the failed count is non-zero, whatever
\* the succeeded count; SUCCESS when the failed count is zero or absent and the
\* succeeded count is non-zero; RUNNING when both are zero or absent.
C19_StatusPrecedence ==
    (hc_pc # "idle" /\ hc_job[1].context /\ hc_job[1].read = None) =>
        LET nfailed == PodCount(hc_job[1].failed)
            nsucceeded == PodCount(hc_job[1].succeeded)
        IN  /\ hc_pc \in {"returned", "mapped"}
            /\ hc_result[1].status \in {"FAILED", "SUCCESS", "RUNNING"}
            /\ hc_result[1].status = "FAILED" <=> nfailed > 0
            /\ hc_result[1].status = "SUCCESS" <=> (nfailed = 0 /\ nsucceeded > 0)
            /\ hc_result[1].status = "RUNNING" <=> (nfailed = 0 /\ nsucceeded = 0)
            /\ hc_pc = "mapped" => hc_status[1].status_type = hc_result[1].status

\* C19 witness: a job with a failed pod and a succeeded pod was mapped to FAILED
C19_Witness ==
    /\ hc_pc = "mapped"
    /\ hc_job[1].read = None
    /\ hc_job[1].failed = Some(1)
    /\ hc_job[1].succeeded = Some(1)
    /\ hc_status[1].status_type = "FAILED"

\* C18: cancellation during a poll does not abort it.  With the event set, an iteration
\* in flight goes on as it would without it: its steps stay inside the iteration until
\* it returns from the commit or from the handler, a poll that has returned its
\* statuses is committed in full, and then no iteration is started any more; so after
\* the event is set at most the one iteration in flight commits.
C18_CancellationDoesNotAbortPoll ==
    /\ [][(shutdown_event /\ pc \in IterationPcs /\ pc' # pc) =>
            /\ pc' \in IterationPcs \cup {"wait"}
            /\ pc' = "wait" => (CommitWritten \/ pc = "except")]_vars
    /\ [][(shutdown_event /\ pc = "for" /\ remaining = {} /\ pc' # pc) =>
            pc' = "lock_commit"]_vars
    /\ (shutdown_event /\ pc = "lock_commit") ~>
            (shutdown_event /\ CommitWritten /\ statuses_dict = StatusesAsDict)
    /\ [][(shutdown_event /\ CommitWritten /\ pc' # pc) =>
            (pc' = "wait" /\ committed' = statuses_dict /\ finished' = started)]_vars
    /\ [][shutdown_event => (started' = started /\ shutdown_event')]_vars
    /\ [](shutdown_event => started - finished \in {0, 1})
    /\ [][(shutdown_event /\ statuses_dict' # statuses_dict) => started - finished = 1]_vars

\* C18 witness: the event was set during the poll, and the iteration has written the
\* statuses of its two tenants to the table
C18_Witness ==
    /\ shutdown_event
    /\ CommitWritten
    /\ Len(statuses) = 2
    /\ statuses_dict = StatusesAsDict
====
